---- MODULE Spec2Model ----
(***************************************************************************)
(* BRBOrswot (src/src/brb_orswot.rs): the BRB wrapper around the ORSWOT of *)
(* the crdts crate.  A replica is an actor and an Orswot; add and rm build *)
(* ops without applying them, validate decides whether an op of a claimed  *)
(* source may be applied, apply merges it.                                 *)
(*                                                                         *)
(* A VClock is a function from every actor to its counter, 0 standing for  *)
(* an actor the clock holds no dot of.  An op is a record of one shape:    *)
(* an Add reads its dot and members, an Rm its clock and members.          *)
(***************************************************************************)
EXTENDS Integers, Sequences, FiniteSets, TLC

VARIABLES
    orswot,     \* orswot[p]: the Orswot owned by the replica of actor p
    sent,       \* sent[s]: the ops broadcast under source s, in order
    delivered,  \* delivered[q][s]: how many ops of sent[s] replica q applied
    log,        \* log[q]: the sources of the ops replica q applied, in order
    model,      \* the ordinary set of the sequential test
    last        \* the last step taken: what was called, on what, the outcome

vars == <<orswot, sent, delivered, log, model, last>>

Actors == {"a", "b"}
ActorOrder == <<"a", "b">>
Members == {1, 2}

\* Bounds of the model.
MaxCounter == 2
MaxSent == 3
MaxForged == 1
MaxValidateSent == 2
MaxByzSent == 2

Counters == 0..MaxCounter
VClock == [Actors -> Counters]
ZeroClock == [x \in Actors |-> 0]
Dots == [actor : Actors, counter : Counters]
NoDot == [actor |-> "a", counter |-> 0]

---------------------------------------------------------------------------
(* crdts::VClock, as the wrapper and the Orswot use it.                    *)

\* VClock::get
Get(clock, actor) == clock[actor]

\* VClock::inc: the dot after the clock's counter for the actor.
Inc(clock, actor) == [actor |-> actor, counter |-> Get(clock, actor) + 1]

\* VClock::apply(dot): keep the larger counter.
VClockApply(clock, dot) ==
    IF Get(clock, dot.actor) < dot.counter
    THEN [clock EXCEPT ![dot.actor] = dot.counter]
    ELSE clock

\* VClock::validate_op(dot): a dot beyond the next counter leaves a gap.
VClockValidateOp(clock, dot) ==
    IF dot.counter > Get(clock, dot.actor) + 1 THEN "DotRange" ELSE "Ok"

\* VClock::partial_cmp, in the order the crate tests the cases.
PartialCmp(c1, c2) ==
    IF c1 = c2 THEN "Equal"
    ELSE IF \A w \in Actors : Get(c1, w) >= Get(c2, w) THEN "Greater"
    ELSE IF \A w \in Actors : Get(c2, w) >= Get(c1, w) THEN "Less"
    ELSE "None"

\* VClock::reset_remove(other): forget each actor whose counter other covers.
ResetRemove(clock, other) ==
    [w \in Actors |->
        IF Get(other, w) > 0 /\ Get(other, w) >= Get(clock, w) THEN 0 ELSE Get(clock, w)]

IsEmptyClock(clock) == clock = ZeroClock

---------------------------------------------------------------------------
(* Ops and the Orswot state.                                               *)

AddOp(dot, members) ==
    [type |-> "Add", dot |-> dot, clock |-> ZeroClock, members |-> members]
RmOp(clock, members) ==
    [type |-> "Rm", dot |-> NoDot, clock |-> clock, members |-> members]

\* Orswot::default: no entries, zero clock, nothing deferred.
EmptyOrswot ==
    [clock |-> ZeroClock, entries |-> [m \in Members |-> ZeroClock], deferred |-> {}]

\* Orswot::read().val: the members that hold an entry.
Read(o) == {m \in Members : ~IsEmptyClock(o.entries[m])}

\* Orswot::contains(member).val
Contains(o, member) == ~IsEmptyClock(o.entries[member])

\* Orswot::apply_rm: reset each member's clock by the remove's clock, drop the
\* entries left empty, and defer the remove when its clock is not seen yet.
ApplyRm(o, members, clock) ==
    LET entries == [m \in Members |->
                       IF m \in members THEN ResetRemove(o.entries[m], clock)
                       ELSE o.entries[m]]
        ahead == PartialCmp(clock, o.clock) \in {"None", "Greater"}
        others == {d \in o.deferred : d.clock # clock}
        same == UNION {d.members : d \in {e \in o.deferred : e.clock = clock}}
    IN  [clock |-> o.clock,
         entries |-> entries,
         deferred |-> IF ahead
                      THEN others \cup {[clock |-> clock, members |-> same \cup members]}
                      ELSE o.deferred]

\* Orswot::apply_deferred: take the deferred removes and apply each again.
RECURSIVE ApplyRmAll(_, _)
ApplyRmAll(o, pending) ==
    IF pending = {} THEN o
    ELSE LET d == CHOOSE x \in pending : TRUE
         IN  ApplyRmAll(ApplyRm(o, d.members, d.clock), pending \ {d})

ApplyDeferred(o) == ApplyRmAll([o EXCEPT !.deferred = {}], o.deferred)

\* Orswot::apply (CmRDT)
OrswotApply(o, op) ==
    IF op.type = "Add"
    THEN IF Get(o.clock, op.dot.actor) >= op.dot.counter
         THEN o
         ELSE ApplyDeferred(
                [clock |-> VClockApply(o.clock, op.dot),
                 entries |-> [m \in Members |->
                                 IF m \in op.members
                                 THEN VClockApply(o.entries[m], op.dot)
                                 ELSE o.entries[m]],
                 deferred |-> o.deferred])
    ELSE ApplyRm(o, op.members, op.clock)

\* Orswot::validate_op (CmRDT): an Add's dot against the clock; an Rm passes.
OrswotValidateOp(o, op) ==
    IF op.type = "Add" THEN VClockValidateOp(o.clock, op.dot) ELSE "Ok"

---------------------------------------------------------------------------
(* BRBOrswot: the wrapper's own operations (src/src/brb_orswot.rs).         *)

\* BRBOrswot::new
New(actor) == EmptyOrswot

\* add without the increment: the dot is the actor's last one.
add_StaleDot(p, o, member) ==
    AddOp([actor |-> p, counter |-> Get(o.clock, p)], {member})

\* add incrementing the actor's counter twice: the dot skips one.
add_SkipsDot(p, o, member) ==
    AddOp([actor |-> p, counter |-> Get(o.clock, p) + 2], {member})

\* BRBOrswot::add: the dot of derive_add_ctx over the Orswot's read_ctx.
add(p, o, member) == AddOp(Inc(o.clock, p), {member})

\* rm with a fresh context in place of the read context: an empty clock.
rm_NoContext(p, o, member) == RmOp(ZeroClock, {member})

\* rm with the context of the member's own entry: only the dots attached to the
\* member.
rm_MemberClock(p, o, member) == RmOp(o.entries[member], {member})

\* BRBOrswot::rm: the whole clock of the Orswot's read_ctx.
rm(p, o, member) == RmOp(o.clock, {member})

\* BRBOrswot::contains
contains(o, member) == Contains(o, member)

\* BRBOrswot::read
read(o) == Read(o)

\* validate with the causal check left out: every single-member Rm passes.
validate_NoCausalCheck(o, source, op) ==
    IF OrswotValidateOp(o, op) # "Ok" THEN "Orswot"
    ELSE IF op.type = "Add"
    THEN IF op.dot.actor # source THEN "SourceDoesNotMatchOp" ELSE "Ok"
    ELSE IF Cardinality(op.members) # 1 THEN "RemoveOnlySupportedForOneMember"
    ELSE "Ok"

\* validate rejecting only a clock strictly ahead: a concurrent clock passes.
validate_GreaterOnly(o, source, op) ==
    IF OrswotValidateOp(o, op) # "Ok" THEN "Orswot"
    ELSE IF op.type = "Add"
    THEN IF op.dot.actor # source THEN "SourceDoesNotMatchOp" ELSE "Ok"
    ELSE IF Cardinality(op.members) # 1 THEN "RemoveOnlySupportedForOneMember"
    ELSE IF PartialCmp(op.clock, o.clock) = "Greater"
    THEN "RemovingDataWeHaventSeenYet"
    ELSE "Ok"

\* validate with the authorship check left out.
validate_NoSourceCheck(o, source, op) ==
    IF OrswotValidateOp(o, op) # "Ok" THEN "Orswot"
    ELSE IF op.type = "Add" THEN "Ok"
    ELSE IF Cardinality(op.members) # 1 THEN "RemoveOnlySupportedForOneMember"
    ELSE IF PartialCmp(op.clock, o.clock) \in {"None", "Greater"}
    THEN "RemovingDataWeHaventSeenYet"
    ELSE "Ok"

\* validate refusing only a remove of more than one member: an empty one passes
\* on to the causal check.
validate_MoreThanOne(o, source, op) ==
    IF OrswotValidateOp(o, op) # "Ok" THEN "Orswot"
    ELSE IF op.type = "Add"
    THEN IF op.dot.actor # source THEN "SourceDoesNotMatchOp" ELSE "Ok"
    ELSE IF Cardinality(op.members) > 1 THEN "RemoveOnlySupportedForOneMember"
    ELSE IF PartialCmp(op.clock, o.clock) \in {"None", "Greater"}
    THEN "RemovingDataWeHaventSeenYet"
    ELSE "Ok"

\* validate rejecting only a concurrent clock: a clock strictly ahead passes.
validate_NoneOnly(o, source, op) ==
    IF OrswotValidateOp(o, op) # "Ok" THEN "Orswot"
    ELSE IF op.type = "Add"
    THEN IF op.dot.actor # source THEN "SourceDoesNotMatchOp" ELSE "Ok"
    ELSE IF Cardinality(op.members) # 1 THEN "RemoveOnlySupportedForOneMember"
    ELSE IF PartialCmp(op.clock, o.clock) = "None"
    THEN "RemovingDataWeHaventSeenYet"
    ELSE "Ok"

\* validate with the authorship and single-member checks ahead of the inner
\* validity and causal checks.
validate_WrapperChecksFirst(o, source, op) ==
    IF op.type = "Add" /\ op.dot.actor # source THEN "SourceDoesNotMatchOp"
    ELSE IF op.type = "Rm" /\ PartialCmp(op.clock, o.clock) \in {"None", "Greater"}
    THEN "RemovingDataWeHaventSeenYet"
    ELSE IF OrswotValidateOp(o, op) # "Ok" THEN "Orswot"
    ELSE IF op.type = "Rm" /\ Cardinality(op.members) # 1
    THEN "RemoveOnlySupportedForOneMember"
    ELSE "Ok"

\* validate accepting an Rm only when its clock equals the local clock: a clock
\* the replica has moved past is rejected as well.
validate_EqualOnly(o, source, op) ==
    IF OrswotValidateOp(o, op) # "Ok" THEN "Orswot"
    ELSE IF op.type = "Add"
    THEN IF op.dot.actor # source THEN "SourceDoesNotMatchOp" ELSE "Ok"
    ELSE IF Cardinality(op.members) # 1 THEN "RemoveOnlySupportedForOneMember"
    ELSE IF PartialCmp(op.clock, o.clock) # "Equal"
    THEN "RemovingDataWeHaventSeenYet"
    ELSE "Ok"

\* validate accepting an Add only for the very next dot of its actor: a dot the
\* clock already covers is rejected.
validate_ExactNext(o, source, op) ==
    IF op.type = "Add" /\ op.dot.counter # Get(o.clock, op.dot.actor) + 1
    THEN "Orswot"
    ELSE IF op.type = "Add"
    THEN IF op.dot.actor # source THEN "SourceDoesNotMatchOp" ELSE "Ok"
    ELSE IF Cardinality(op.members) # 1 THEN "RemoveOnlySupportedForOneMember"
    ELSE IF PartialCmp(op.clock, o.clock) \in {"None", "Greater"}
    THEN "RemovingDataWeHaventSeenYet"
    ELSE "Ok"

\* BRBDataType::validate
validate(o, source, op) ==
    IF OrswotValidateOp(o, op) # "Ok" THEN "Orswot"
    ELSE IF op.type = "Add"
    THEN IF op.dot.actor # source THEN "SourceDoesNotMatchOp" ELSE "Ok"
    ELSE IF Cardinality(op.members) # 1 THEN "RemoveOnlySupportedForOneMember"
    ELSE IF PartialCmp(op.clock, o.clock) \in {"None", "Greater"}
    THEN "RemovingDataWeHaventSeenYet"
    ELSE "Ok"

\* apply that hands only removes to the Orswot.
apply_DropAdd(o, op) == IF op.type = "Add" THEN o ELSE OrswotApply(o, op)

\* apply whose Add replaces a member's dots by the new dot.
apply_ReplaceEntry(o, op) ==
    IF op.type = "Add" /\ Get(o.clock, op.dot.actor) < op.dot.counter
    THEN [clock |-> VClockApply(o.clock, op.dot),
          entries |-> [m \in Members |->
                          IF m \in op.members
                          THEN VClockApply(ZeroClock, op.dot)
                          ELSE o.entries[m]],
          deferred |-> o.deferred]
    ELSE OrswotApply(o, op)

\* apply whose Rm drops the member's entry whatever dots it holds.
apply_RmWins(o, op) ==
    IF op.type = "Rm"
    THEN [o EXCEPT !.entries = [m \in Members |->
                                   IF m \in op.members THEN ZeroClock ELSE @[m]]]
    ELSE OrswotApply(o, op)

\* apply whose Add is merged even when its dot was already seen.
apply_NoSeenCheck(o, op) ==
    IF op.type = "Add"
    THEN [clock |-> VClockApply(o.clock, op.dot),
          entries |-> [m \in Members |->
                          IF m \in op.members
                          THEN VClockApply(o.entries[m], op.dot)
                          ELSE o.entries[m]],
          deferred |-> o.deferred]
    ELSE OrswotApply(o, op)

\* apply dropping an Add only when the clock is strictly past its dot: an Add
\* whose dot is the clock's last one is merged.
apply_SeenStrict(o, op) ==
    IF op.type = "Add" /\ Get(o.clock, op.dot.actor) = op.dot.counter
    THEN [clock |-> o.clock,
          entries |-> [m \in Members |->
                          IF m \in op.members
                          THEN VClockApply(o.entries[m], op.dot)
                          ELSE o.entries[m]],
          deferred |-> o.deferred]
    ELSE OrswotApply(o, op)

\* apply resetting every member's dots by the clock of an Rm, whatever members
\* the Rm names.
apply_RmAllMembers(o, op) ==
    IF op.type = "Rm" THEN ApplyRm(o, Members, op.clock) ELSE OrswotApply(o, op)

\* BRBDataType::apply
apply(o, op) == OrswotApply(o, op)

---------------------------------------------------------------------------
(* The ops a source may put on the wire, and the steps of the system.      *)

AllOps ==
    {AddOp(d, ms) : d \in Dots, ms \in SUBSET Members}
        \cup {RmOp(c, ms) : c \in VClock, ms \in SUBSET Members}

NoOp == RmOp(ZeroClock, {})

Msg(op, built) == [op |-> op, built |-> built]

RECURSIVE SumLen(_)
SumLen(S) ==
    IF S = {} THEN 0
    ELSE LET s == CHOOSE x \in S : TRUE IN Len(sent[s]) + SumLen(S \ {s})

TotalSent == SumLen(Actors)

NumForged ==
    Cardinality({<<s, i>> \in Actors \X (1..MaxSent) :
                    i <= Len(sent[s]) /\ ~sent[s][i].built})

\* What a step leaves in last.  before is the replica's Orswot ahead of the
\* step; prevOp and prevBefore are the op and the Orswot of the apply that came
\* right before an apply at the same replica.
Step(kind, replica, source, op, result, before, prevOp, prevBefore) ==
    [kind |-> kind, replica |-> replica, source |-> source, op |-> op,
     result |-> result, before |-> before,
     prevOp |-> prevOp, prevBefore |-> prevBefore]

Init ==
    /\ orswot = [p \in Actors |-> New(p)]
    /\ sent = [s \in Actors |-> <<>>]
    /\ delivered = [q \in Actors |-> [s \in Actors |-> 0]]
    /\ log = [q \in Actors |-> <<>>]
    /\ model = {}
    /\ last = Step("new", "a", "a", NoOp, "Ok", EmptyOrswot, NoOp, EmptyOrswot)

\* Replica p calls add(member) and broadcasts the op it returns.
BuildAdd(p, member) ==
    /\ TotalSent < MaxSent
    /\ Get(orswot[p].clock, p) < MaxCounter
    /\ LET op == add(p, orswot[p], member)
       IN  /\ sent' = [sent EXCEPT ![p] = Append(@, Msg(op, TRUE))]
           /\ last' = Step("add", p, p, op, "Ok", orswot[p], NoOp, EmptyOrswot)
    /\ UNCHANGED <<orswot, delivered, log>>

\* Replica p calls rm(member) and broadcasts the op it returns.
BuildRm(p, member) ==
    /\ TotalSent < MaxSent
    /\ LET op == rm(p, orswot[p], member)
       IN  /\ sent' = [sent EXCEPT ![p] = Append(@, Msg(op, TRUE))]
           /\ last' = Step("rm", p, p, op, "Ok", orswot[p], NoOp, EmptyOrswot)
    /\ UNCHANGED <<orswot, delivered, log>>

Add(p, member) == BuildAdd(p, member) /\ UNCHANGED model

Rm(p, member) == BuildRm(p, member) /\ UNCHANGED model

\* A faulty source s broadcasts an op no builder returned.  The runtime takes
\* to agreement only an op some replica accepts.
Forge(s, op) ==
    /\ TotalSent < MaxSent
    /\ NumForged < MaxForged
    /\ \E q \in Actors : validate(orswot[q], s, op) = "Ok"
    /\ sent' = [sent EXCEPT ![s] = Append(@, Msg(op, FALSE))]
    /\ last' = Step("forge", s, s, op, "Ok", EmptyOrswot, NoOp, EmptyOrswot)
    /\ UNCHANGED <<orswot, delivered, log, model>>

\* validate that also applies the op it accepts.
Validate_AppliesOnAccept(q, source, op) ==
    /\ last.kind # "validate"
    /\ last' = Step("validate", q, source, op,
                    validate(orswot[q], source, op), orswot[q], NoOp, EmptyOrswot)
    /\ orswot' = [orswot EXCEPT ![q] =
                      IF validate(@, source, op) = "Ok" THEN apply(@, op) ELSE @]
    /\ UNCHANGED <<sent, delivered, log, model>>

\* validate holding the op's author against the replica's own actor in place
\* of the source it was handed.
Validate_OwnActor(q, source, op) ==
    /\ last.kind # "validate"
    /\ last' = Step("validate", q, source, op,
                    validate(orswot[q], q, op), orswot[q], NoOp, EmptyOrswot)
    /\ UNCHANGED <<orswot, sent, delivered, log, model>>

\* Replica q is asked whether op, claimed to come from source, may be applied.
\* One answer is observed after each other step.
Validate(q, source, op) ==
    /\ last.kind # "validate"
    /\ last' = Step("validate", q, source, op,
                    validate(orswot[q], source, op), orswot[q], NoOp, EmptyOrswot)
    /\ UNCHANGED <<orswot, sent, delivered, log, model>>

\* Replica q applies the next op of source s, which it has just validated.
Deliver(q, s) ==
    /\ delivered[q][s] < Len(sent[s])
    /\ LET msg == sent[s][delivered[q][s] + 1]
           chained == last.kind = "apply" /\ last.replica = q
       IN  /\ validate(orswot[q], s, msg.op) = "Ok"
           /\ orswot' = [orswot EXCEPT ![q] = apply(@, msg.op)]
           /\ last' = Step("apply", q, s, msg.op, "Ok", orswot[q],
                           IF chained THEN last.op ELSE NoOp,
                           IF chained THEN last.before ELSE EmptyOrswot)
    /\ delivered' = [delivered EXCEPT ![q][s] = @ + 1]
    /\ log' = [log EXCEPT ![q] = Append(@, s)]
    /\ UNCHANGED <<sent, model>>

\* Replica q is handed again an Add it has applied, and applies it again.
Redeliver(q, s, i) ==
    /\ i <= delivered[q][s]
    /\ sent[s][i].op.type = "Add"
    /\ orswot' = [orswot EXCEPT ![q] = apply(@, sent[s][i].op)]
    /\ last' = Step("reapply", q, s, sent[s][i].op, "Ok", orswot[q], NoOp, EmptyOrswot)
    /\ UNCHANGED <<sent, delivered, log, model>>

Next ==
    \/ \E p \in Actors, m \in Members : Add(p, m)
    \/ \E p \in Actors, m \in Members : Rm(p, m)
    \/ \E q \in Actors, s \in Actors : Deliver(q, s)
    \/ \E q \in Actors, s \in Actors, i \in 1..MaxSent : Redeliver(q, s, i)

Spec == Init /\ [][Next]_vars

\* The validation engine observed: ops are built and applied as above, and any
\* op of the wire format may be presented to any replica under any source.
NextValidate ==
    \/ TotalSent < MaxValidateSent /\ \E p \in Actors, m \in Members : Add(p, m)
    \/ TotalSent < MaxValidateSent /\ \E p \in Actors, m \in Members : Rm(p, m)
    \/ \E q \in Actors, s \in Actors : Deliver(q, s)
    \/ \E q \in Actors, s \in Actors, op \in AllOps : Validate(q, s, op)

SpecValidate == Init /\ [][NextValidate]_vars

\* Replica q is asked whether member is in the set.
CallContains(q, member) ==
    /\ last.kind \notin {"contains", "read"}
    /\ last' = Step("contains", q, q, NoOp,
                    IF contains(orswot[q], member) THEN "true" ELSE "false",
                    orswot[q], NoOp, EmptyOrswot)
    /\ UNCHANGED <<orswot, sent, delivered, log, model>>

\* Replica q is asked for the members of the set.
CallRead(q) ==
    /\ last.kind \notin {"contains", "read"}
    /\ last' = Step("read", q, q, RmOp(ZeroClock, read(orswot[q])), "Ok",
                    orswot[q], NoOp, EmptyOrswot)
    /\ UNCHANGED <<orswot, sent, delivered, log, model>>

\* Every method of BRBOrswot called on the replicas: the builders, the
\* queries, validate and apply.
NextFrame ==
    \/ NextValidate
    \/ \E q \in Actors, m \in Members : CallContains(q, m)
    \/ \E q \in Actors : CallRead(q)

SpecFrame == Init /\ [][NextFrame]_vars

\* Honest replicas under fair delivery: every replica goes on validating the
\* next op of each source, and applies it whenever its validate accepts.
NextFair ==
    \/ \E p \in Actors, m \in Members : Add(p, m)
    \/ \E p \in Actors, m \in Members : Rm(p, m)
    \/ \E q \in Actors, s \in Actors : Deliver(q, s)

Fairness == \A q \in Actors, s \in Actors : WF_vars(Deliver(q, s))

SpecFair == Init /\ [][NextFair]_vars /\ Fairness

\* The network with a faulty source among the replicas.
NextByz ==
    \/ TotalSent < MaxByzSent /\ \E p \in Actors, m \in Members : Add(p, m)
    \/ TotalSent < MaxByzSent /\ \E p \in Actors, m \in Members : Rm(p, m)
    \/ TotalSent < MaxByzSent /\ \E s \in Actors, op \in AllOps : Forge(s, op)
    \/ \E q \in Actors, s \in Actors : Deliver(q, s)
    \/ \E q \in Actors, s \in Actors, i \in 1..MaxSent : Redeliver(q, s, i)

SpecByz == Init /\ [][NextByz]_vars

\* The sequential test (src/tests/dsb_orswot_net.rs): replicas taken in turn
\* build one op each, and every replica validates and applies it before the
\* next is built; the same inserts and removes go to an ordinary set.
Quiescent == \A q \in Actors, s \in Actors : delivered[q][s] = Len(sent[s])

Turn == ActorOrder[(TotalSent % Len(ActorOrder)) + 1]

SeqAdd(member) ==
    /\ Quiescent
    /\ BuildAdd(Turn, member)
    /\ model' = model \cup {member}

SeqRm(member) ==
    /\ Quiescent
    /\ BuildRm(Turn, member)
    /\ model' = model \ {member}

NextSeq ==
    \/ \E m \in Members : SeqAdd(m)
    \/ \E m \in Members : SeqRm(m)
    \/ \E q \in Actors, s \in Actors : Deliver(q, s)

SpecSeq == Init /\ [][NextSeq]_vars

---------------------------------------------------------------------------
(* Properties.                                                             *)

\* c1 <= c2 pointwise
ClockLeq(c1, c2) == \A w \in Actors : c1[w] <= c2[w]

Validated == last.kind = "validate"
Local == orswot[last.replica]

\* last.op is an Rm that rm returned at the replica of its source.
BuiltRm ==
    /\ last.op.type = "Rm"
    /\ \E i \in 1..Len(sent[last.source]) : sent[last.source][i] = Msg(last.op, TRUE)

\* Replica A built Add{d, {x}} and has applied it; x is the member of last.op.
LocalAddOf(A, i) ==
    /\ i <= Len(sent[A])
    /\ i <= delivered[A][A]
    /\ sent[A][i].built
    /\ sent[A][i].op.type = "Add"
    /\ sent[A][i].op.members = last.op.members

\* C1, as stated: A builds Add of x and applies it only locally; B, with an
\* empty clock, builds rm(x); validating that Rm under source B at a replica
\* that has not applied A's add returns RemovingDataWeHaventSeenYet.
C1_Orig ==
    (/\ Validated
     /\ BuiltRm
     /\ last.op.clock = ZeroClock
     /\ \E A \in Actors \ {last.source}, i \in 1..MaxSent :
            /\ LocalAddOf(A, i)
            /\ delivered[last.replica][A] < i
            /\ delivered[last.source][A] < i)
        => last.result = "RemovingDataWeHaventSeenYet"

\* C1, amended: an Rm of x built by a replica that has applied A's Add of x
\* carries a clock covering the Add's dot, and validating it at a replica whose
\* clock does not cover that dot returns RemovingDataWeHaventSeenYet; the Rm
\* built from an empty clock is accepted at every replica.
C1_CausalRejection ==
    (Validated /\ BuiltRm) =>
        /\ \A A \in Actors, i \in 1..MaxSent :
              (/\ LocalAddOf(A, i)
               /\ Get(last.op.clock, A) >= sent[A][i].op.dot.counter
               /\ Get(Local.clock, A) < sent[A][i].op.dot.counter)
                  => last.result = "RemovingDataWeHaventSeenYet"
        /\ last.op.clock = ZeroClock => last.result = "Ok"

C1_Witness ==
    /\ Validated
    /\ BuiltRm
    /\ \E A \in Actors, i \in 1..MaxSent :
          /\ LocalAddOf(A, i)
          /\ Get(last.op.clock, A) >= sent[A][i].op.dot.counter
          /\ Get(Local.clock, A) < sent[A][i].op.dot.counter
    /\ last.result = "RemovingDataWeHaventSeenYet"

\* C2, as stated: an Rm whose clock is not <= the local clock, whatever its
\* members, is answered RemovingDataWeHaventSeenYet.
C2_Orig ==
    (Validated /\ last.op.type = "Rm" /\ ~ClockLeq(last.op.clock, Local.clock))
        => last.result = "RemovingDataWeHaventSeenYet"

\* C2, amended: an Rm whose clock is not <= the local clock is never accepted;
\* with exactly one member it is answered RemovingDataWeHaventSeenYet, with any
\* other number of members RemoveOnlySupportedForOneMember.
C2_CausalGate ==
    (Validated /\ last.op.type = "Rm" /\ ~ClockLeq(last.op.clock, Local.clock))
        => last.result =
              IF Cardinality(last.op.members) = 1
              THEN "RemovingDataWeHaventSeenYet"
              ELSE "RemoveOnlySupportedForOneMember"

\* A single-member Rm whose clock is concurrent with the local clock.
C2_Witness ==
    /\ Validated
    /\ last.op.type = "Rm"
    /\ Cardinality(last.op.members) = 1
    /\ \E w \in Actors : last.op.clock[w] > Local.clock[w]
    /\ \E w \in Actors : last.op.clock[w] < Local.clock[w]
    /\ last.result = "RemovingDataWeHaventSeenYet"

\* C3, as stated: an Add whose dot's actor is not the source, any counter, is
\* answered SourceDoesNotMatchOp.
C3_Orig ==
    (Validated /\ last.op.type = "Add" /\ last.op.dot.actor # last.source)
        => last.result = "SourceDoesNotMatchOp"

\* C3, amended: an Add whose dot's actor is not the source is never accepted;
\* it is answered SourceDoesNotMatchOp when its counter is at most the next
\* counter of the local clock for that actor, and the inner Orswot error when
\* the counter is further ahead.
C3_AuthorshipGate ==
    (Validated /\ last.op.type = "Add" /\ last.op.dot.actor # last.source)
        => last.result =
              IF last.op.dot.counter <= Local.clock[last.op.dot.actor] + 1
              THEN "SourceDoesNotMatchOp"
              ELSE "Orswot"

\* An Add of another actor's next dot, at a replica that has applied ops.
C3_Witness ==
    /\ Validated
    /\ last.op.type = "Add"
    /\ last.op.dot.actor # last.source
    /\ last.op.dot.counter = Local.clock[last.op.dot.actor] + 1
    /\ Local.clock # ZeroClock
    /\ last.result = "SourceDoesNotMatchOp"

\* C4: an Rm whose members set does not hold exactly one element is answered
\* RemoveOnlySupportedForOneMember, whatever the state, source and clock.
C4_SingleMemberGate ==
    (Validated /\ last.op.type = "Rm" /\ Cardinality(last.op.members) # 1)
        => last.result = "RemoveOnlySupportedForOneMember"

\* A remove of no member whose clock the replica has seen.
C4_Witness ==
    /\ Validated
    /\ last.op.type = "Rm"
    /\ last.op.members = {}
    /\ last.op.clock # ZeroClock
    /\ ClockLeq(last.op.clock, Local.clock)
    /\ last.result = "RemoveOnlySupportedForOneMember"

\* The next op of source s at replica q, when one is waiting.
Waiting(q, s) == delivered[q][s] < Len(sent[s])
NextOp(q, s) == sent[s][delivered[q][s] + 1].op

\* C5: ops built one at a time by replicas taken in turn, each validated and
\* applied at every replica before the next is built: every op passes validate
\* at every replica, and once all are applied the replicas hold equal state
\* and read() equals the ordinary set given the same inserts and removes.
C5_SequentialSet ==
    /\ \A q \in Actors, s \in Actors :
          Waiting(q, s) => validate(orswot[q], s, NextOp(q, s)) = "Ok"
    /\ Quiescent =>
          \A p \in Actors, q \in Actors :
              orswot[p] = orswot[q] /\ read(orswot[p]) = model

\* A present member was just removed everywhere, another one stays.
C5_Witness ==
    /\ Quiescent
    /\ TotalSent >= 3
    /\ last.kind = "apply"
    /\ last.op.type = "Rm"
    /\ last.op.members \subseteq read(last.before)
    /\ model # {}
    /\ \A p \in Actors : read(orswot[p]) = model

Slots == {<<s, i>> \in Actors \X (1..MaxSent) : i <= Len(sent[s])}
AllAdds == \A x \in Slots : sent[x[1]][x[2]].built /\ sent[x[1]][x[2]].op.type = "Add"
AddedMembers == UNION {sent[x[1]][x[2]].op.members : x \in Slots}
DistinctDots ==
    \A x \in Slots, y \in Slots :
        x # y => sent[x[1]][x[2]].op.dot # sent[y[1]][y[2]].op.dot
FullExchange == Quiescent /\ TotalSent > 0

\* C6, as stated: once every Add built by the replicas has been validated and
\* applied at every replica, read() at every replica is the set of all members
\* that were added.
C6_Orig ==
    (FullExchange /\ AllAdds) =>
        \A q \in Actors : read(orswot[q]) = AddedMembers

\* C6, amended: the same, provided no two of the Adds carry the same dot, that
\* is, each replica had applied its previous Add when it built the next.
C6_AddsShowUp ==
    (FullExchange /\ AllAdds /\ DistinctDots) =>
        \A q \in Actors : read(orswot[q]) = AddedMembers

\* Both replicas added, the Adds crossed on the way, and every member shows.
C6_Witness ==
    /\ FullExchange
    /\ AllAdds
    /\ DistinctDots
    /\ TotalSent >= 3
    /\ \A s \in Actors : Len(sent[s]) > 0
    /\ log["a"] # log["b"]
    /\ AddedMembers = Members
    /\ \A q \in Actors : read(orswot[q]) = Members

\* C7: two replicas that have applied the same ops, each valid at the replica
\* when applied and in the order of its source, read equal sets, whether the
\* ops of different sources were interleaved alike or not.
C7_Convergence ==
    \A p \in Actors, q \in Actors :
        delivered[p] = delivered[q] => read(orswot[p]) = read(orswot[q])

\* Three ops, a remove among them, applied in two different interleavings.
C7_Witness ==
    /\ delivered["a"] = delivered["b"]
    /\ Len(log["a"]) >= 3
    /\ log["a"] # log["b"]
    /\ \E x \in Slots : sent[x[1]][x[2]].op.type = "Rm"
    /\ read(orswot["a"]) # {}
    /\ read(orswot["a"]) = read(orswot["b"])

\* The replica of the last step applied two ops one right after the other.
Chained == last.kind = "apply" /\ last.prevOp # NoOp

\* An Add of m and an Rm of m whose clock does not cover the Add's dot.
AddRmPair(addOp, rmOp, m) ==
    /\ addOp.type = "Add"
    /\ rmOp.type = "Rm"
    /\ m \in addOp.members
    /\ rmOp.members = {m}
    /\ Get(rmOp.clock, addOp.dot.actor) < addOp.dot.counter

\* The Add's dot is not covered by the clock of the Orswot it is applied to.
Fresh(o, addOp) == Get(o.clock, addOp.dot.actor) < addOp.dot.counter

\* C8, as stated: a replica that applies an Add of m and an Rm of m whose
\* clock does not cover the Add's dot, each valid when applied, in either
\* order, contains m afterwards.
C8_Orig ==
    \A m \in Members :
        (Chained /\ (\/ AddRmPair(last.prevOp, last.op, m)
                     \/ AddRmPair(last.op, last.prevOp, m)))
            => contains(Local, m)

\* C8, amended: the same, provided the Add's dot is new to the replica when the
\* Add is applied (its counter is above the replica's clock for its actor).
C8_AddWins ==
    \A m \in Members :
        (Chained /\ (\/ (AddRmPair(last.prevOp, last.op, m)
                            /\ Fresh(last.prevBefore, last.prevOp))
                     \/ (AddRmPair(last.op, last.prevOp, m)
                            /\ Fresh(last.before, last.op))))
            => contains(Local, m)

\* The Add was applied first, then an Rm carrying dots of its own.
C8_Witness ==
    /\ Chained
    /\ \E m \in Members :
          /\ AddRmPair(last.prevOp, last.op, m)
          /\ Fresh(last.prevBefore, last.prevOp)
          /\ contains(Local, m)
    /\ last.op.clock # ZeroClock

\* C9: applying again an Add the replica has applied leaves read() unchanged,
\* also after the member was removed.
C9_AddIdempotent ==
    last.kind = "reapply" => read(Local) = read(last.before)

\* The Add of a member that was removed since is applied again.
C9_Witness ==
    /\ last.kind = "reapply"
    /\ last.op.members # {}
    /\ last.op.members \cap read(Local) = {}
    /\ Local.clock # ZeroClock

\* C10, as stated: the dot add returns differs from the dot of every Add the
\* replica's add returned before.
C10_Orig ==
    last.kind = "add" =>
        \A i \in 1..(Len(sent[last.replica]) - 1) :
            (sent[last.replica][i].built /\ sent[last.replica][i].op.type = "Add")
                => sent[last.replica][i].op.dot # last.op.dot

\* C10, amended: add returns an Add of one member whose dot has the replica's
\* own actor and the counter after the local clock's counter for that actor,
\* so the dot differs from the dot of every Add the replica has applied; two
\* calls of add with no apply in between return the same dot.
C10_FreshDot ==
    last.kind = "add" =>
        /\ last.op.type = "Add"
        /\ Cardinality(last.op.members) = 1
        /\ last.op.dot = [actor |-> last.replica,
                          counter |-> Get(Local.clock, last.replica) + 1]
        /\ \A s \in Actors, i \in 1..MaxSent :
              (i <= delivered[last.replica][s] /\ sent[s][i].op.type = "Add")
                  => sent[s][i].op.dot # last.op.dot

\* The replica has applied an Add of its own and builds the next.
C10_Witness ==
    /\ last.kind = "add"
    /\ delivered[last.replica][last.replica] > 0
    /\ last.op.dot.counter = 2


---------------------------------------------------------------------------
\* C11: only apply mutates.  A step that changes the Orswot of any replica is
\* an apply step; add, rm, contains, read and validate, accepting or
\* rejecting, leave the Orswot of the replica they are called on as it was.
C11_OnlyApplyMutates ==
    [][/\ orswot' # orswot => last'.kind \in {"apply", "reapply"}
       /\ last'.kind \in {"add", "rm", "contains", "read", "validate"}
              => orswot'[last'.replica] = last'.before]_vars

\* a validate that rejects, on a replica that holds members, has left them.
C11_Witness ==
    /\ Validated
    /\ last.result \notin {"Ok", "Orswot"}
    /\ read(Local) # {}
    /\ Local = last.before


\* the entries and the clock of two Orswots are the same
SameState(o1, o2) == o1.entries = o2.entries /\ o1.clock = o2.clock

C13_NoDeferredRemoves == \A q \in Actors : orswot[q].deferred = {}

\* a remove the replica rejected one apply earlier is applied, empties the
\* member it names, and nothing is queued.
C13_Witness ==
    /\ Chained
    /\ last.op.type = "Rm"
    /\ validate(last.prevBefore, last.source, last.op) = "RemovingDataWeHaventSeenYet"
    /\ last.op.members \subseteq read(last.before)
    /\ last.op.members \cap read(Local) = {}
    /\ Local.deferred = {}

\* the dot of an Add is ahead of the next counter of its actor
DotGap(o, op) == op.type = "Add" /\ op.dot.counter > o.clock[op.dot.actor] + 1

\* the failures of an op, each taken alone, in the order validate looks at them
FirstFailure(o, source, op) ==
    IF DotGap(o, op) THEN "Orswot"
    ELSE IF op.type = "Add" /\ op.dot.actor # source THEN "SourceDoesNotMatchOp"
    ELSE IF op.type = "Rm" /\ Cardinality(op.members) # 1
    THEN "RemoveOnlySupportedForOneMember"
    ELSE IF op.type = "Rm" /\ ~ClockLeq(op.clock, o.clock)
    THEN "RemovingDataWeHaventSeenYet"
    ELSE "Ok"

\* C14: check order.  validate answers with the first failing check in the
\* order inner validity, authorship (Add), single member (Rm), causal
\* completeness (Rm): an Add with a gap in its dot and a wrong source gets the
\* inner Orswot error, and an Rm naming other than one member with a clock not
\* <= the local clock gets RemoveOnlySupportedForOneMember.
C14_CheckOrder ==
    Validated =>
        /\ last.result = FirstFailure(last.before, last.source, last.op)
        /\ DotGap(last.before, last.op) /\ last.op.dot.actor # last.source
              => last.result = "Orswot"
        /\ ( /\ last.op.type = "Rm"
             /\ Cardinality(last.op.members) # 1
             /\ ~ClockLeq(last.op.clock, last.before.clock) )
              => last.result = "RemoveOnlySupportedForOneMember"

\* an Add with a gap in its dot and a wrong source has been answered with the
\* inner error, at a replica that holds members.
C14_Witness ==
    /\ Validated
    /\ read(Local) # {}
    /\ DotGap(last.before, last.op)
    /\ last.op.dot.actor # last.source
    /\ last.result = "Orswot"

\* an Rm of two members with a clock ahead of the local one has been answered
\* with the single-member error.
C14_WitnessRm ==
    /\ Validated
    /\ read(Local) # {}
    /\ last.op.type = "Rm"
    /\ Cardinality(last.op.members) = 2
    /\ PartialCmp(last.op.clock, last.before.clock) = "Greater"
    /\ last.result = "RemoveOnlySupportedForOneMember"


\* C15: rm(member) returns an Rm whose clock is the replica's whole local
\* clock, every actor's counter and not only the dots attached to the member,
\* and whose members are exactly {member}, whether or not the member is in the
\* set.
C15_RmWholeClock ==
    /\ \A p \in Actors, m \in Members :
          LET op == rm(p, orswot[p], m)
          IN  /\ op.type = "Rm"
              /\ op.members = {m}
              /\ \A w \in Actors : Get(op.clock, w) = Get(orswot[p].clock, w)
    /\ last.kind = "rm" =>
          /\ last.op.type = "Rm"
          /\ Cardinality(last.op.members) = 1
          /\ last.op.clock = last.before.clock
          /\ last.before = Local

\* rm of a member that is not in the set, at a replica whose clock has dots of
\* both actors: the Rm carries them all.
C15_Witness ==
    /\ last.kind = "rm"
    /\ last.op.members \cap read(Local) = {}
    /\ read(Local) # {}
    /\ \A w \in Actors : Get(last.op.clock, w) > 0

\* rm of a member that is in the set with the dot of one actor only: the Rm
\* carries the other actor's counter too.
C15_WitnessPresent ==
    /\ last.kind = "rm"
    /\ last.op.members \subseteq read(Local)
    /\ \A w \in Actors : Get(last.op.clock, w) > 0
    /\ \A m \in last.op.members : Local.entries[m] # last.op.clock

\* The i-th op of source p is an Rm that rm returned at p, and validate at
\* replica q gives it the result r.
RmResultAt(p, i, q, r) ==
    /\ i <= Len(sent[p])
    /\ sent[p][i].built
    /\ sent[p][i].op.type = "Rm"
    /\ validate(orswot[q], p, sent[p][i].op) = r

\* C16: resubmission succeeds.  An Rm that rm returned at replica P and that
\* replica Q rejects with RemovingDataWeHaventSeenYet is, under fair delivery
\* in per-source order of the ops P had applied, accepted by validate at Q from
\* some state on and in every later state.
C16_ResubmissionSucceeds ==
    \A p \in Actors, q \in Actors, i \in 1..MaxSent :
        [](RmResultAt(p, i, q, "RemovingDataWeHaventSeenYet")
              => <>[]RmResultAt(p, i, q, "Ok"))

\* replica Q has just applied an Add, and the Rm waiting behind it, rejected
\* for its clock before this apply, is accepted now.
C16_Witness ==
    /\ last.kind = "apply"
    /\ last.op.type = "Add"
    /\ \E p \in Actors, i \in 1..MaxSent :
          /\ RmResultAt(p, i, last.replica, "Ok")
          /\ i = delivered[last.replica][p] + 1
          /\ validate(last.before, p, sent[p][i].op) = "RemovingDataWeHaventSeenYet"
          /\ sent[p][i].op.members \subseteq read(Local)

\* C17: acceptance is stable.  An op that validate accepts at a replica under
\* a source is still accepted there after every further step, because the
\* local clock never decreases: applying other validated ops between the
\* validate and the apply of an op never makes it invalid.
C17_AcceptanceStable ==
    [][\A q \in Actors :
          /\ ClockLeq(orswot[q].clock, orswot'[q].clock)
          /\ \A s \in Actors, op \in AllOps :
                validate(orswot[q], s, op) = "Ok"
                    => validate(orswot'[q], s, op) = "Ok"]_vars

\* an op of one source was valid before the replica applied an op of the other
\* source that moved its clock, and it is valid and waiting still.
C17_Witness ==
    /\ last.kind = "apply"
    /\ Local.clock # last.before.clock
    /\ \E s \in Actors :
          /\ s # last.source
          /\ Waiting(last.replica, s)
          /\ validate(last.before, s, NextOp(last.replica, s)) = "Ok"
          /\ validate(Local, s, NextOp(last.replica, s)) = "Ok"

\* C18: self-validation.  In every state of a replica P, the op P.add(m)
\* returns and the op P.rm(m) returns each pass P.validate under P's own actor
\* as source.
C18_SelfValidation ==
    /\ \A p \in Actors, m \in Members :
          /\ validate(orswot[p], p, add(p, orswot[p], m)) = "Ok"
          /\ validate(orswot[p], p, rm(p, orswot[p], m)) = "Ok"
    /\ last.kind \in {"add", "rm"}
          => validate(Local, last.replica, last.op) = "Ok"

\* a replica that holds members and dots of both actors has built an op, and
\* the op passes its validate.
C18_Witness ==
    /\ last.kind \in {"add", "rm"}
    /\ read(Local) # {}
    /\ \A w \in Actors : Get(Local.clock, w) > 0
    /\ validate(Local, last.replica, last.op) = "Ok"

\* C19: a stale Add is accepted and dropped.  An Add presented under its dot's
\* own actor whose dot counter the local clock already covers passes validate,
\* and applying it leaves read() and the clock as they were, also when it names
\* a member other than the one first applied with that dot; so the second of
\* two ops built by add with no apply in between is accepted and has no effect
\* once the first was applied.
C19_StaleAddDropped ==
    /\ \A q \in Actors, op \in AllOps :
          (op.type = "Add" /\ ~Fresh(orswot[q], op)) =>
              /\ validate(orswot[q], op.dot.actor, op) = "Ok"
              /\ read(apply(orswot[q], op)) = read(orswot[q])
              /\ apply(orswot[q], op).clock = orswot[q].clock
    /\ (last.kind \in {"apply", "reapply"} /\ last.op.type = "Add"
            /\ ~Fresh(last.before, last.op)) =>
          /\ validate(last.before, last.op.dot.actor, last.op) = "Ok"
          /\ read(Local) = read(last.before)
          /\ Local.clock = last.before.clock

\* the second of two Adds built with one dot for two members has been validated
\* and applied after the first: its member is not in the set.
C19_Witness ==
    /\ last.kind = "apply"
    /\ last.op.type = "Add"
    /\ ~Fresh(last.before, last.op)
    /\ last.op.members \cap read(Local) = {}
    /\ \E i \in 1..MaxSent :
          /\ i < delivered[last.replica][last.source]
          /\ sent[last.source][i].built
          /\ sent[last.source][i].op.type = "Add"
          /\ sent[last.source][i].op.dot = last.op.dot
          /\ sent[last.source][i].op.members \subseteq read(Local)
          /\ sent[last.source][delivered[last.replica][last.source]] = Msg(last.op, TRUE)

\* Applying the Rm op to the Orswot before gives the Orswot after: its clock is
\* unchanged, contains(x) is unchanged for every member the Rm does not name,
\* and a named member is absent exactly when the Rm's clock covers every dot
\* attached to it before.
RmFrame(before, op, after) ==
    /\ after.clock = before.clock
    /\ \A x \in Members \ op.members : contains(after, x) = contains(before, x)
    /\ \A m \in op.members :
          ~contains(after, m) <=> ClockLeq(before.entries[m], op.clock)

\* C20: frame of a validated remove.  Applying an Rm{clock, {m}} that passed
\* validate leaves the local clock unchanged and contains(x) unchanged for
\* every x # m, and m is absent afterwards exactly when the Rm's clock covers
\* every dot attached to m.
C20_RmFrame ==
    /\ \A q \in Actors, s \in Actors, op \in AllOps :
          (op.type = "Rm" /\ validate(orswot[q], s, op) = "Ok")
              => RmFrame(orswot[q], op, apply(orswot[q], op))
    /\ (last.kind = "apply" /\ last.op.type = "Rm")
          => RmFrame(last.before, last.op, Local)

\* a validated Rm of m has taken away one dot of m and left another, which its
\* clock does not cover: m is still in the set.
C20_Witness ==
    /\ last.kind = "apply"
    /\ last.op.type = "Rm"
    /\ last.op.clock # ZeroClock
    /\ \E m \in last.op.members :
          /\ contains(Local, m)
          /\ Local.entries[m] # last.before.entries[m]
====
